---- MODULE Spec2Model ----
(***************************************************************************)
(* Model of drivers/ai/generate-interactions.py: the generator of the      *)
(* INTERACTIONS lookup table (256 arrow bytes x 16 board cells).           *)
(*                                                                         *)
(* The script is a straight-line batch program.  Its state is the two loop *)
(* variables (arrows, cell), the position i of the iterator over           *)
(* NEIGHBOURS[cell], the accumulator interactions, and the lines printed   *)
(* so far (out).  pc is the statement about to run.                        *)
(***************************************************************************)
EXTENDS Integers, Sequences, FiniteSets, TLC

VARIABLES pc, arrows, cell, i, interactions, out

vars == <<pc, arrows, cell, i, interactions, out>>

(***************************************************************************)
(* Arrow bit patterns.                                                     *)
(***************************************************************************)
U == 128
UR == 64
R == 32
DR == 16
D == 8
DL == 4
L == 2
UL == 1

(***************************************************************************)
(* Loop ranges: range(0, 256) and range(0, 16).                            *)
(***************************************************************************)
NumArrows == 256
NumCells == 16

(***************************************************************************)
(* The hard-coded adjacency literal.  Python lists are 0-based, TLA+       *)
(* sequences 1-based: row c of the literal is NEIGHBOURS[c + 1].           *)
(***************************************************************************)
NEIGHBOURS ==
  << << <<1, R>>, <<4, D>>, <<5, DR>> >>,
     << <<0, L>>, <<2, R>>, <<4, DL>>, <<5, D>>, <<6, DR>> >>,
     << <<1, L>>, <<3, R>>, <<5, DL>>, <<6, D>>, <<7, DR>> >>,
     << <<2, L>>, <<6, DL>>, <<7, D>> >>,
     << <<0, U>>, <<1, UR>>, <<5, R>>, <<8, D>>, <<9, DR>> >>,
     << <<0, UL>>, <<1, U>>, <<2, UR>>, <<4, L>>, <<6, R>>, <<8, DL>>, <<9, D>>, <<10, DR>> >>,
     << <<1, UL>>, <<2, U>>, <<3, UR>>, <<5, L>>, <<7, R>>, <<9, DL>>, <<10, D>>, <<11, DR>> >>,
     << <<3, U>>, <<11, D>>, <<10, DL>>, <<6, L>>, <<2, UL>> >>,
     << <<4, U>>, <<5, UR>>, <<9, R>>, <<13, DR>>, <<12, D>> >>,
     << <<5, U>>, <<6, UR>>, <<10, R>>, <<14, DR>>, <<13, D>>, <<12, DL>>, <<8, L>>, <<4, UL>> >>,
     << <<6, U>>, <<7, UR>>, <<11, R>>, <<15, DR>>, <<14, D>>, <<13, DL>>, <<9, L>>, <<5, UL>> >>,
     << <<6, UL>>, <<7, U>>, <<10, L>>, <<14, DL>>, <<15, D>> >>,
     << <<8, U>>, <<9, UR>>, <<13, R>> >>,
     << <<8, UL>>, <<9, U>>, <<10, UR>>, <<12, L>>, <<14, R>> >>,
     << <<9, UL>>, <<10, U>>, <<11, UR>>, <<13, L>>, <<15, R>> >>,
     << <<10, UL>>, <<11, U>>, <<14, L>> >> >>

(***************************************************************************)
(* Faulty variants of the adjacency lookup, used to test that the          *)
(* properties below depend on the literal:                                 *)
(*   - row 0 tagged with the directions from the neighbours back to cell 0;*)
(*   - row 5 without its last entry;                                       *)
(*   - row 0 with the tag of neighbour 1 mistyped;                         *)
(*   - row 4 with the wrap-around neighbour 3 (4 - 1) listed as L;         *)
(*   - row 7 listing neighbour 3 a second time, as UR.                     *)
(***************************************************************************)
NeighboursOfBack(c) ==
  IF c = 0 THEN << <<1, L>>, <<4, U>>, <<5, UL>> >> ELSE NEIGHBOURS[c + 1]

NeighboursOfMissing(c) ==
  IF c = 5 THEN SubSeq(NEIGHBOURS[6], 1, Len(NEIGHBOURS[6]) - 1) ELSE NEIGHBOURS[c + 1]

NeighboursOfMistyped(c) ==
  IF c = 0 THEN << <<1, DR>>, <<4, D>>, <<5, DR>> >> ELSE NEIGHBOURS[c + 1]

NeighboursOfWrap(c) ==
  IF c = 4 THEN Append(NEIGHBOURS[5], <<3, L>>) ELSE NEIGHBOURS[c + 1]

NeighboursOfDup(c) ==
  IF c = 7 THEN Append(NEIGHBOURS[8], <<3, UR>>) ELSE NEIGHBOURS[c + 1]

(***************************************************************************)
(* NEIGHBOURS[cell], as the inner for statement reads it.                  *)
(***************************************************************************)
NeighboursOf(c) == NEIGHBOURS[c + 1]

(***************************************************************************)
(* Python's integer operators on non-negative integers.                    *)
(***************************************************************************)
RECURSIVE BitAnd(_, _)
BitAnd(a, b) ==
  IF a = 0 \/ b = 0 THEN 0
  ELSE (IF a % 2 = 1 /\ b % 2 = 1 THEN 1 ELSE 0) + 2 * BitAnd(a \div 2, b \div 2)

RECURSIVE BitXor(_, _)
BitXor(a, b) ==
  IF a = 0 THEN b
  ELSE IF b = 0 THEN a
  ELSE ((a + b) % 2) + 2 * BitXor(a \div 2, b \div 2)

ShiftLeft(a, n) == a * 2^n

ShiftRight(a, n) == a \div 2^n

(***************************************************************************)
(* Faulty variants of the loop body: the neighbour's bit numbered from the *)
(* most significant end; the arrow test inverted; the accumulator          *)
(* overwritten instead of toggled.                                         *)
(***************************************************************************)
AccumulateWrongBit(acc, a, entry) ==
  IF BitAnd(a, entry[2]) # 0 THEN BitXor(acc, ShiftLeft(1, 15 - entry[1])) ELSE acc

AccumulateInverted(acc, a, entry) ==
  IF BitAnd(a, entry[2]) = 0 THEN BitXor(acc, ShiftLeft(1, entry[1])) ELSE acc

AccumulateOverwrite(acc, a, entry) ==
  IF BitAnd(a, entry[2]) # 0 THEN ShiftLeft(1, entry[1]) ELSE acc

(***************************************************************************)
(* One iteration of the body of the inner loop: the arrow test and the     *)
(* toggle of the neighbour's bit.                                          *)
(***************************************************************************)
Accumulate(acc, a, entry) ==
  IF BitAnd(a, entry[2]) # 0 THEN BitXor(acc, ShiftLeft(1, entry[1])) ELSE acc

(***************************************************************************)
(* The whole inner loop, from interactions = 0, over the first n entries   *)
(* of NEIGHBOURS[c].                                                       *)
(***************************************************************************)
RECURSIVE InteractionsUpTo(_, _, _)
InteractionsUpTo(a, c, n) ==
  IF n = 0 THEN 0
  ELSE Accumulate(InteractionsUpTo(a, c, n - 1), a, NeighboursOf(c)[n])

computeInteraction(a, c) == InteractionsUpTo(a, c, Len(NeighboursOf(c)))

(***************************************************************************)
(* The same function tabulated over the whole domain of the two loops.     *)
(***************************************************************************)
InteractionTable ==
  [a \in 0..(NumArrows - 1) |-> [c \in 0..(NumCells - 1) |-> computeInteraction(a, c)]]

(***************************************************************************)
(* Output formatting.  "{:04b}" prints the binary digits of its argument,  *)
(* zero-padded on the left to a width of at least 4.                       *)
(***************************************************************************)
RECURSIVE BinDigits(_)
BinDigits(n) ==
  IF n < 2 THEN (IF n = 1 THEN "1" ELSE "0")
  ELSE BinDigits(n \div 2) \o (IF n % 2 = 1 THEN "1" ELSE "0")

RECURSIVE ZeroPad(_, _)
ZeroPad(s, w) == IF Len(s) < w THEN ZeroPad("0" \o s, w) ELSE s

Bin04(n) == ZeroPad(BinDigits(n), 4)

ArrowsComment(a) ==
  "// Arrows: " \o Bin04(ShiftRight(a, 4)) \o "_" \o Bin04(BitAnd(a, 15))

FormatEntry(x) ==
  "0b" \o Bin04(BitAnd(ShiftRight(x, 12), 15))
       \o "_" \o Bin04(BitAnd(ShiftRight(x, 8), 15))
       \o "_" \o Bin04(BitAnd(ShiftRight(x, 4), 15))
       \o "_" \o Bin04(BitAnd(ShiftRight(x, 0), 15)) \o ","

HeaderLines ==
  << "// DO NOT MODIFY",
     "// Generated using ./drivers/ai/generate-interactions.py",
     "",
     "use tetra_master_core as core;",
     "",
     "pub(crate) fn lookup(arrows: core::Arrows, cell: u8) -> u16 {",
     "    INTERACTIONS[arrows.0 as usize][cell as usize]",
     "}",
     "" >>

TableOpenLine == "const INTERACTIONS: [[u16; 16]; 256] = ["

(***************************************************************************)
(* range(0, 256) has a value after a.                                      *)
(***************************************************************************)
MoreArrows(a) == a + 1 < NumArrows

(***************************************************************************)
(* The program, one action per statement executed.                         *)
(***************************************************************************)
Init ==
  /\ pc = "header"
  /\ arrows = 0
  /\ cell = 0
  /\ i = 0
  /\ interactions = 0
  /\ out = << >>

PrintHeader ==
  /\ pc = "header"
  /\ out' = out \o HeaderLines
  /\ pc' = "table_open"
  /\ UNCHANGED <<arrows, cell, i, interactions>>

PrintTableOpen ==
  /\ pc = "table_open"
  /\ out' = Append(out, TableOpenLine)
  /\ arrows' = 0
  /\ pc' = IF NumArrows > 0 THEN "row_begin" ELSE "table_close"
  /\ UNCHANGED <<cell, i, interactions>>

(***************************************************************************)
(* Faulty variant: the cell loop starts at 1.                              *)
(***************************************************************************)
RowBeginSkipsCell ==
  /\ pc = "row_begin"
  /\ out' = out \o << ArrowsComment(arrows), "[" >>
  /\ cell' = 1
  /\ pc' = IF NumCells > 0 THEN "cell_begin" ELSE "row_end"
  /\ UNCHANGED <<arrows, i, interactions>>

\* The dictionary arrow_interactions assigned here is never read: it is not modelled.
RowBegin ==
  /\ pc = "row_begin"
  /\ out' = out \o << ArrowsComment(arrows), "[" >>
  /\ cell' = 0
  /\ pc' = IF NumCells > 0 THEN "cell_begin" ELSE "row_end"
  /\ UNCHANGED <<arrows, i, interactions>>

CellBegin ==
  /\ pc = "cell_begin"
  /\ interactions' = 0
  /\ i' = 0
  /\ pc' = IF Len(NeighboursOf(cell)) > 0 THEN "neighbour" ELSE "emit"
  /\ UNCHANGED <<arrows, cell, out>>

NeighbourStep ==
  /\ pc = "neighbour"
  /\ i < Len(NeighboursOf(cell))
  /\ interactions' = Accumulate(interactions, arrows, NeighboursOf(cell)[i + 1])
  /\ i' = i + 1
  /\ pc' = IF i + 1 < Len(NeighboursOf(cell)) THEN "neighbour" ELSE "emit"
  /\ UNCHANGED <<arrows, cell, out>>

EmitEntry ==
  /\ pc = "emit"
  /\ out' = Append(out, FormatEntry(interactions))
  /\ IF cell + 1 < NumCells
       THEN cell' = cell + 1 /\ pc' = "cell_begin"
       ELSE cell' = cell /\ pc' = "row_end"
  /\ UNCHANGED <<arrows, i, interactions>>

RowEnd ==
  /\ pc = "row_end"
  /\ out' = Append(out, "],")
  /\ IF MoreArrows(arrows)
       THEN arrows' = arrows + 1 /\ pc' = "row_begin"
       ELSE arrows' = arrows /\ pc' = "table_close"
  /\ UNCHANGED <<cell, i, interactions>>

PrintTableClose ==
  /\ pc = "table_close"
  /\ out' = Append(out, "];")
  /\ pc' = "done"
  /\ UNCHANGED <<arrows, cell, i, interactions>>

Next ==
  \/ PrintHeader
  \/ PrintTableOpen
  \/ RowBegin
  \/ CellBegin
  \/ NeighbourStep
  \/ EmitEntry
  \/ RowEnd
  \/ PrintTableClose

Spec == Init /\ [][Next]_vars

(***************************************************************************)
(* The same program with one action per iteration of the arrows loop: the  *)
(* comment, the opening bracket, the 16 entries and the closing bracket of *)
(* a row are printed in one step.  The loop variables end the step with    *)
(* the values the cell loop leaves in them.  The script runs to completion *)
(* on its own, hence the fairness condition.                               *)
(***************************************************************************)
\* Faulty variant: the cell loop stops one cell early, range(0, 15).
RowEntriesShort(a) ==
  [k \in 1..(NumCells - 1) |-> FormatEntry(InteractionTable[a][k - 1])]

RowEntries(a) ==
  [k \in 1..NumCells |-> FormatEntry(InteractionTable[a][k - 1])]

GenerateRow ==
  /\ pc = "row_begin"
  /\ out' = out \o << ArrowsComment(arrows), "[" >> \o RowEntries(arrows) \o << "]," >>
  /\ cell' = NumCells - 1
  /\ i' = Len(NeighboursOf(NumCells - 1))
  /\ interactions' = InteractionTable[arrows][NumCells - 1]
  /\ IF MoreArrows(arrows)
       THEN arrows' = arrows + 1 /\ pc' = "row_begin"
       ELSE arrows' = arrows /\ pc' = "table_close"

RowNext ==
  \/ PrintHeader
  \/ PrintTableOpen
  \/ GenerateRow
  \/ PrintTableClose

RowSpec == Init /\ [][RowNext]_vars /\ WF_vars(RowNext)

TypeOK ==
  /\ pc \in {"header", "table_open", "row_begin", "cell_begin", "neighbour",
             "emit", "row_end", "table_close", "done"}
  /\ arrows \in 0..(NumArrows - 1)
  /\ cell \in 0..(NumCells - 1)
  /\ i \in 0..8
  /\ interactions \in Nat

(***************************************************************************)
(* Grid geometry, independent of the literal: cells are numbered row-major *)
(* on the 4 x 4 board, row 0 at the top; a direction is its arrow bit and  *)
(* its row and column deltas.                                              *)
(***************************************************************************)
Directions ==
  { [bit |-> 128, dr |-> -1, dc |-> 0],  [bit |-> 64, dr |-> -1, dc |-> 1],
    [bit |-> 32,  dr |-> 0,  dc |-> 1],  [bit |-> 16, dr |-> 1,  dc |-> 1],
    [bit |-> 8,   dr |-> 1,  dc |-> 0],  [bit |-> 4,  dr |-> 1,  dc |-> -1],
    [bit |-> 2,   dr |-> 0,  dc |-> -1], [bit |-> 1,  dr |-> -1, dc |-> -1] }

RowOf(c) == c \div 4

ColOf(c) == c % 4

\* The cell one grid step from c in direction d, or -1 when the step leaves the board.
StepCell(c, d) ==
  IF /\ RowOf(c) + d.dr \in 0..3
     /\ ColOf(c) + d.dc \in 0..3
  THEN (RowOf(c) + d.dr) * 4 + (ColOf(c) + d.dc)
  ELSE -1

HasBit(x, n) == (x \div 2^n) % 2 = 1

HasArrow(a, d) == (a \div d.bit) % 2 = 1

Abs(x) == IF x < 0 THEN -x ELSE x

Adjacent(n, c) ==
  /\ n # c
  /\ Abs(RowOf(n) - RowOf(c)) <= 1
  /\ Abs(ColOf(n) - ColOf(c)) <= 1

\* Some arrow of a leads from c to n in one grid step.
Pointed(a, c, n) == \E d \in Directions : HasArrow(a, d) /\ StepCell(c, d) = n

RECURSIVE GeometryUpTo(_, _, _)
GeometryUpTo(a, c, n) ==
  IF n < 0 THEN 0
  ELSE (IF Pointed(a, c, n) THEN 2^n ELSE 0) + GeometryUpTo(a, c, n - 1)

GeometryMask(a, c) == GeometryUpTo(a, c, NumCells - 1)

OppositeBit(b) ==
  CASE b = 128 -> 8  [] b = 8 -> 128
    [] b = 64  -> 4  [] b = 4 -> 64
    [] b = 32  -> 2  [] b = 2 -> 32
    [] b = 16  -> 1  [] b = 1 -> 16

RECURSIVE BitOr(_, _)
BitOr(a, b) ==
  IF a = 0 THEN b
  ELSE IF b = 0 THEN a
  ELSE (IF a % 2 = 1 \/ b % 2 = 1 THEN 1 ELSE 0) + 2 * BitOr(a \div 2, b \div 2)

\* The inner loop is running or has just finished for (arrows, cell).
InCell == pc \in {"neighbour", "emit"}

\* The adjacency entry the inner loop has just processed.
CurrentEntry == NeighboursOf(cell)[i]

(***************************************************************************)
(* Reading the artifact back: the entry lines among the printed lines, and *)
(* the value of the binary literal "0bXXXX_XXXX_XXXX_XXXX," of a line.     *)
(***************************************************************************)
IsEntryLine(l) == Len(l) = 22 /\ SubSeq(l, 1, 2) = "0b"

EntryLines(lines) == SelectSeq(lines, IsEntryLine)

RECURSIVE ParseBin(_)
ParseBin(s) ==
  IF Len(s) = 0 THEN 0
  ELSE 2 * ParseBin(SubSeq(s, 1, Len(s) - 1))
       + (IF SubSeq(s, Len(s), Len(s)) = "1" THEN 1 ELSE 0)

DecodeEntry(l) ==
  ParseBin(SubSeq(l, 3, 6)) * 4096 + ParseBin(SubSeq(l, 8, 11)) * 256
    + ParseBin(SubSeq(l, 13, 16)) * 16 + ParseBin(SubSeq(l, 18, 21))

\* The table as the consumer indexes it, flattened row-major, as entry text.
ExpectedEntryLines ==
  [k \in 1..(NumArrows * NumCells) |->
     FormatEntry(InteractionTable[(k - 1) \div NumCells][(k - 1) % NumCells])]

(***************************************************************************)
(* C1.  For every arrow byte and every cell, the mask accumulated from the *)
(* NEIGHBOURS literal equals the mask derived from grid geometry: bit n is *)
(* set iff some direction whose bit is set in the arrow byte leads from    *)
(* the cell to cell n in one grid step without leaving the board.          *)
(***************************************************************************)
C1_MatchesGeometry ==
  pc = "emit" => interactions = GeometryMask(arrows, cell)

C1_Witness ==
  pc = "emit" /\ arrows = 3 /\ cell = 5 /\ interactions = 17

(***************************************************************************)
(* C2 as stated.  The tag D of every entry (Y, D) of NEIGHBOURS[X] is the  *)
(* direction from the neighbour Y back toward X: X is one grid step from Y *)
(* in direction D.                                                         *)
(***************************************************************************)
C2_BackDirection ==
  (InCell /\ i >= 1) =>
    \E d \in Directions : d.bit = CurrentEntry[2] /\ StepCell(CurrentEntry[1], d) = cell

(***************************************************************************)
(* C2 amended.  The tag D of every entry (Y, D) of NEIGHBOURS[X] is the    *)
(* forward direction from X to Y: Y is one grid step from X in direction   *)
(* D, and the arrow tested is the subject piece's own arrow.               *)
(***************************************************************************)
C2_ForwardDirection ==
  (InCell /\ i >= 1) =>
    \E d \in Directions : d.bit = CurrentEntry[2] /\ StepCell(cell, d) = CurrentEntry[1]

C2_Witness ==
  /\ InCell
  /\ arrows = 2
  /\ cell = 1
  /\ i = 1
  /\ CurrentEntry = <<0, L>>
  /\ interactions = 1

(***************************************************************************)
(* C3.  Entries are emitted in ascending arrow byte and, within a row, in  *)
(* ascending cell: at every point of generation the k-th entry emitted so  *)
(* far (from 0) is the mask of (k div 16, k mod 16).                       *)
(***************************************************************************)
C3_RowMajorOrder ==
  LET e == EntryLines(out)
      n == Len(e)
  IN  /\ n <= NumArrows * NumCells
      /\ e = SubSeq(ExpectedEntryLines, 1, n)
      /\ n > 0 => DecodeEntry(e[n]) =
                    computeInteraction((n - 1) \div NumCells, (n - 1) % NumCells)

C3_Witness ==
  LET e == EntryLines(out)
  IN  /\ pc = "cell_begin"
      /\ arrows = 2
      /\ cell = 2
      /\ Len(e) = 2 * 16 + 2
      /\ DecodeEntry(e[Len(e)]) = 1

(***************************************************************************)
(* C4.  Generation terminates, and once it has terminated the artifact     *)
(* holds exactly 256 rows of exactly 16 entries each (4096 entries): no    *)
(* run ends with a truncated or partial table, and no row is ever closed   *)
(* with fewer or more than 16 entries.                                     *)
(***************************************************************************)
ClosedRowsComplete ==
  \A k \in 1..Len(out) :
    out[k] = "]," =>
      /\ k > 17
      /\ out[k - 17] = "["
      /\ \A j \in (k - 16)..(k - 1) : IsEntryLine(out[j])

CompleteTable ==
  LET opens == {k \in 1..Len(out) : out[k] = "["}
      closes == {k \in 1..Len(out) : out[k] = "],"}
      entries == {k \in 1..Len(out) : IsEntryLine(out[k])}
  IN  /\ Cardinality(opens) = 256
      /\ Cardinality(closes) = 256
      /\ Cardinality(entries) = 4096
      /\ \A o \in opens :
           /\ o + 17 <= Len(out)
           /\ \A k \in (o + 1)..(o + 16) : k \in entries
           /\ (o + 17) \in closes
      /\ out[Len(out)] = "];"

C4_TerminatesComplete ==
  /\ <>(pc = "done")
  /\ [](pc = "done" => CompleteTable)
  /\ []ClosedRowsComplete

C4_Witness ==
  pc = "done" /\ CompleteTable /\ Len(EntryLines(out)) = 4096

(***************************************************************************)
(* C5.  The adjacency relation lists exactly 3 neighbours for each corner  *)
(* cell, 5 for each non-corner edge cell and 8 for each interior cell, 84  *)
(* directed pairs in all.                                                  *)
(***************************************************************************)
ExpectedNeighbourCount(c) ==
  IF c \in {0, 3, 12, 15} THEN 3
  ELSE IF c \in {1, 2, 4, 7, 8, 11, 13, 14} THEN 5
  ELSE 8

RECURSIVE TotalPairs(_)
TotalPairs(c) ==
  IF c < 0 THEN 0 ELSE Len(NeighboursOf(c)) + TotalPairs(c - 1)

C5_NeighbourCounts ==
  pc = "emit" =>
    /\ i = Len(NeighboursOf(cell))
    /\ i = ExpectedNeighbourCount(cell)
    /\ Cardinality({NeighboursOf(cell)[k][1] : k \in 1..i}) = i
    /\ TotalPairs(NumCells - 1) = 84

C5_Witness ==
  pc = "emit" /\ cell = 9 /\ i = 8 /\ arrows = 1

(***************************************************************************)
(* C6.  Adjacency is symmetric: if (Y, D) is in X's list then              *)
(* (X, opposite(D)) is in Y's list.                                        *)
(***************************************************************************)
C6_Symmetric ==
  (InCell /\ i >= 1) =>
    \E k \in 1..Len(NeighboursOf(CurrentEntry[1])) :
      NeighboursOf(CurrentEntry[1])[k] = <<cell, OppositeBit(CurrentEntry[2])>>

C6_Witness ==
  /\ InCell
  /\ cell = 7
  /\ i = 5
  /\ CurrentEntry = <<2, UL>>
  /\ NeighboursOf(2)[5] = <<7, DR>>

(***************************************************************************)
(* C7.  Every bit set in a computed mask names a cell geometrically        *)
(* adjacent to the subject cell; the cell's own bit is never set and no    *)
(* bit above bit 15 is set.                                                *)
(***************************************************************************)
C7_OnlyAdjacentBits ==
  InCell =>
    /\ interactions < 2^NumCells
    /\ ~HasBit(interactions, cell)
    /\ \A n \in 0..(NumCells - 1) : HasBit(interactions, n) => Adjacent(n, cell)

C7_Witness ==
  pc = "emit" /\ arrows = 3 /\ cell = 15 /\ interactions = 17408

(***************************************************************************)
(* C8.  For arrow byte 0 the mask is 0 for every cell: the whole first     *)
(* table row is zero.                                                      *)
(***************************************************************************)
C8_ZeroArrowsZeroRow ==
  LET e == EntryLines(out)
  IN  /\ (InCell /\ arrows = 0) => interactions = 0
      /\ \A k \in 1..(IF Len(e) < NumCells THEN Len(e) ELSE NumCells) :
           DecodeEntry(e[k]) = 0

C8_Witness ==
  /\ pc = "row_end"
  /\ arrows = 0
  /\ Len(EntryLines(out)) = 16
  /\ \A k \in 1..16 : EntryLines(out)[k] = "0b0000_0000_0000_0000,"

(***************************************************************************)
(* C9.  No neighbour appears twice in a cell's list, so toggling with XOR  *)
(* gives the same mask as accumulating with OR after every entry: XOR      *)
(* never clears a bit an earlier entry set.                                *)
(***************************************************************************)
RECURSIVE OrUpTo(_, _, _)
OrUpTo(a, c, n) ==
  IF n = 0 THEN 0
  ELSE LET e == NeighboursOf(c)[n]
       IN  IF BitAnd(a, e[2]) # 0
             THEN BitOr(OrUpTo(a, c, n - 1), 2^(e[1]))
             ELSE OrUpTo(a, c, n - 1)

C9_XorEqualsOr ==
  InCell =>
    /\ \A j, k \in 1..Len(NeighboursOf(cell)) :
         j # k => NeighboursOf(cell)[j][1] # NeighboursOf(cell)[k][1]
    /\ interactions = OrUpTo(arrows, cell, i)

C9_Witness ==
  pc = "emit" /\ arrows = 3 /\ cell = 10 /\ i = 8 /\ interactions = 544

(***************************************************************************)
(* C10.  The mask is a union homomorphism in the arrows: for all a, b with *)
(* a OR b the current arrow byte, mask(a OR b) = mask(a) OR mask(b); and   *)
(* the mask is the union of the masks of its single arrows, each of which  *)
(* has at most one bit set.                                                *)
(***************************************************************************)
SubMasks ==
  [m \in 0..(NumArrows - 1) |-> {s \in 0..(NumArrows - 1) : BitAnd(s, m) = s}]

RECURSIVE UnionOfSingles(_, _, _)
UnionOfSingles(a, c, n) ==
  IF n < 0 THEN 0
  ELSE BitOr(IF HasBit(a, n) THEN InteractionTable[2^n][c] ELSE 0,
             UnionOfSingles(a, c, n - 1))

C10_UnionHomomorphism ==
  pc = "emit" =>
    /\ \A a \in SubMasks[arrows] : \A s \in SubMasks[a] :
         interactions =
           BitOr(InteractionTable[a][cell], InteractionTable[(arrows - a) + s][cell])
    /\ interactions = UnionOfSingles(arrows, cell, 7)
    /\ \A n \in 0..7 :
         Cardinality({b \in 0..(NumCells - 1) : HasBit(InteractionTable[2^n][cell], b)}) <= 1

C10_Witness ==
  /\ pc = "emit"
  /\ arrows = 3
  /\ cell = 6
  /\ InteractionTable[1][6] = 2
  /\ InteractionTable[2][6] = 32
  /\ interactions = 34
====
